---- MODULE Spec2Model ----
(***************************************************************************)
(* Minesweeper knowledge-based agent (src/minesweeper/minesweeper.py).     *)
(*                                                                         *)
(* A cell is a pair <<row, column>>.  A Sentence is a record               *)
(* [cells, count].  The agent is the four fields moves_made, mines, safes  *)
(* and knowledge (a list of sentences, in insertion order).  The board     *)
(* object (class Minesweeper), a single Sentence and the tweet cleaner's   *)
(* remove_pattern (src/Twitter AI/twitter.py) have specifications of their *)
(* own further down.                                                       *)
(***************************************************************************)
EXTENDS Integers, Sequences, FiniteSets, TLC

\* ------------------------------------------------------------------ bounds
\* Boards of every shape height x width with at most MaxCells cells.
MaxCells == 5
\* The board holds at most MaxMines mines.
MaxMines == 2
\* The driver makes a call only while the knowledge list is shorter than this.
MaxKnowledge == 3
\* The longest knowledge list a single call is followed to.
MaxList == 12
\* SpecAny: boards with at most MaxCellsAny cells, at most MaxCalls driver
\* calls, counts in 0 .. MaxCount.
MaxCellsAny == 4
MaxCalls == 2
MaxCount == 2
\* SpecBoard: Minesweeper objects of every shape with at most MaxBoardCells
\* cells, asked for 0 .. MaxBoardCells + 1 mines.
MaxBoardCells == 4
\* SpecSentence: sentences over the cells of one row of MaxSentenceCells cells.
MaxSentenceCells == 3
\* SpecTweet: tweets of at most MaxTweetLen characters.
MaxTweetLen == 6

VARIABLES
    height, width,      \* MinesweeperAI.height, MinesweeperAI.width
    board,              \* Minesweeper.board: the set of cells holding a mine
    moves_made,         \* MinesweeperAI.moves_made
    mines,              \* MinesweeperAI.mines
    safes,              \* MinesweeperAI.safes
    knowledge,          \* MinesweeperAI.knowledge
    pc,                 \* position inside add_knowledge ("idle" outside it)
    consistent,         \* add_knowledge's local flag
    i, j,               \* positions of the two list iterators of the scan
    calls,              \* number of driver calls made so far (SpecAny)
    last,               \* the most recent call: its name, its arguments, the
                        \* value it returned and, for add_knowledge, the
                        \* knowledge list as the loop was entered
    game,               \* a Minesweeper object: height, width, mines, board,
                        \* mines_found
    game_pc,            \* position inside Minesweeper.__init__ ("done" after)
    game_mines,         \* the `mines` argument of Minesweeper.__init__
    game_out,           \* the most recent draw or call on the Minesweeper
                        \* object and what it gave
    sentence,           \* a Sentence object: cells, count
    sentence_out,       \* the most recent call on it and the sentence before
    data                \* a row of the tweet table: tweet, then tidy_tweet

agent == <<moves_made, mines, safes, knowledge>>
dims == <<height, width>>
loop == <<pc, consistent, i, j>>
\* The agent and what it is driven with.
player == <<height, width, board, moves_made, mines, safes, knowledge,
            pc, consistent, i, j, calls, last>>
\* The Minesweeper object.
minesweeper == <<game, game_pc, game_mines, game_out>>
\* The Sentence object on its own.
sentences == <<sentence, sentence_out>>
\* What no method of the agent touches.
outside == <<minesweeper, sentences, data>>
vars == <<player, minesweeper, sentences, data>>

\* Python's None.
None == <<>>

\* All in-bounds cells of an h x w grid.
Cells(h, w) == (0 .. h - 1) \X (0 .. w - 1)

\* ---------------------------------------------------------------- Sentence

Sentence(cells, count) == [cells |-> cells, count |-> count]

\* Sentence.__eq__ against another sentence.
SentenceEq(a, b) == a.cells = b.cells /\ a.count = b.count

\* Sentence.__eq__ against an int: compares the number of cells.
SentenceEqInt(s, n) == Cardinality(s.cells) = n

\* Mutant: the counts are not subtracted.
SentenceSub_keeps_count(a, b) == Sentence(a.cells \ b.cells, a.count)

\* Sentence.__sub__
SentenceSub(a, b) == Sentence(a.cells \ b.cells, a.count - b.count)

\* Mutant: any positive count taken to mean that every cell is a mine.
known_mines_any(s) == IF s.count > 0 THEN s.cells ELSE {}

known_mines(s) == IF Cardinality(s.cells) = s.count THEN s.cells ELSE {}

known_safes(s) == IF s.count = 0 THEN s.cells ELSE {}

\* Mutant: the count is decremented as for a mine.
Sentence_mark_safe_decrements(s, cell) ==
    IF cell \notin s.cells THEN s
    ELSE Sentence(s.cells \ {cell}, s.count - 1)

\* Mutant: the count is not decremented.
Sentence_mark_mine_keeps_count(s, cell) ==
    IF cell \notin s.cells THEN s
    ELSE Sentence(s.cells \ {cell}, s.count)

Sentence_mark_mine(s, cell) ==
    IF cell \notin s.cells THEN s
    ELSE Sentence(s.cells \ {cell}, s.count - 1)

Sentence_mark_safe(s, cell) ==
    IF cell \notin s.cells THEN s
    ELSE Sentence(s.cells \ {cell}, s.count)

\* ------------------------------------------------------------ Minesweeper

\* Mutant: the cell itself is counted too.
nearby_mines_counts_cell(h, w, b, cell) ==
    Cardinality({ c \in (cell[1] - 1 .. cell[1] + 1) \X (cell[2] - 1 .. cell[2] + 1) :
                    /\ 0 <= c[1] /\ c[1] < h /\ 0 <= c[2] /\ c[2] < w
                    /\ c \in b })

\* Minesweeper.nearby_mines on a board whose mined cells are b.
nearby_mines(h, w, b, cell) ==
    Cardinality({ c \in (cell[1] - 1 .. cell[1] + 1) \X (cell[2] - 1 .. cell[2] + 1) :
                    /\ c # cell
                    /\ 0 <= c[1] /\ c[1] < h /\ 0 <= c[2] /\ c[2] < w
                    /\ c \in b })

\* The fields of a Minesweeper once the empty field is built (lines 13-23);
\* there is no mines_found before line 34.
Game(h, w) ==
    [height |-> h, width |-> w, mines |-> {},
     board |-> [c \in Cells(h, w) |-> FALSE]]

\* The cells of the grid that hold True.
Mined(g) == { c \in DOMAIN g.board : g.board[c] }

\* Mutant: the loop also stops once every cell holds a mine.
placing_until_full(g, n) ==
    Cardinality(g.mines) # n /\ Cardinality(g.mines) < g.height * g.width

\* while len(self.mines) != mines
placing(g, n) == Cardinality(g.mines) # n

\* Mutant: the grid is not written.
place_forgets_board(g, cell) ==
    IF ~ g.board[cell] THEN [g EXCEPT !.mines = @ \cup {cell}] ELSE g

\* The body of the placement loop for the draw (i, j) = cell.
place(g, cell) ==
    IF ~ g.board[cell]
    THEN [g EXCEPT !.mines = @ \cup {cell}, !.board[cell] = TRUE]
    ELSE g

is_mine(g, cell) == g.board[cell]

\* Mutant: every flagged mine is enough, whatever else is flagged.
won_all_flagged(g) == g.mines \subseteq g.mines_found

won(g) == g.mines_found = g.mines

\* Minesweeper.print: the lines written, each the sequence of its pieces.
print(g) ==
    LET rule   == [k \in 1 .. g.width |-> "--"] \o <<"-">>
        row(r) == [k \in 1 .. g.width |->
                      IF g.board[<<r, k - 1>>] THEN "|X" ELSE "| "] \o <<"|">>
    IN  [n \in 1 .. 2 * g.height + 1 |->
            IF n % 2 = 1 THEN rule ELSE row((n \div 2) - 1)]

\* ---------------------------------------------------------- MinesweeperAI
\* An agent value a is a record [moves_made, mines, safes, knowledge].

Agent(mm, mi, sa, kb) ==
    [moves_made |-> mm, mines |-> mi, safes |-> sa, knowledge |-> kb]

\* Mutant: the sentences are not told.
mark_mine_no_cascade(a, cell) == [a EXCEPT !.mines = @ \cup {cell}]

mark_mine(a, cell) ==
    [a EXCEPT !.mines = @ \cup {cell},
              !.knowledge = [k \in DOMAIN @ |-> Sentence_mark_mine(@[k], cell)]]

\* Mutant: a cell marked safe is taken off the mines.
mark_safe_unmarks_mine(a, cell) ==
    [a EXCEPT !.safes = @ \cup {cell},
              !.mines = @ \ {cell},
              !.knowledge = [k \in DOMAIN @ |-> Sentence_mark_safe(@[k], cell)]]

mark_safe(a, cell) ==
    [a EXCEPT !.safes = @ \cup {cell},
              !.knowledge = [k \in DOMAIN @ |-> Sentence_mark_safe(@[k], cell)]]

\* for c in new_safe: self.mark_safe(c)
RECURSIVE MarkSafeEach(_, _)
MarkSafeEach(a, todo) ==
    IF todo = {} THEN a
    ELSE LET c == CHOOSE x \in todo : TRUE
         IN  MarkSafeEach(mark_safe(a, c), todo \ {c})

\* for c in new_mine: self.mark_mine(c)
RECURSIVE MarkMineEach(_, _)
MarkMineEach(a, todo) ==
    IF todo = {} THEN a
    ELSE LET c == CHOOSE x \in todo : TRUE
         IN  MarkMineEach(mark_mine(a, c), todo \ {c})

\* Mutant: the ranges stop one short, at the cell's own row and column.
surrounding_cells_short(h, w, cell) ==
    { c \in (cell[1] - 1 .. cell[1]) \X (cell[2] - 1 .. cell[2]) :
        /\ c # cell
        /\ 0 <= c[1] /\ c[1] < h /\ 0 <= c[2] /\ c[2] < w }

\* The in-bounds neighbours of cell, cell itself left out.
surrounding_cells(h, w, cell) ==
    { c \in (cell[1] - 1 .. cell[1] + 1) \X (cell[2] - 1 .. cell[2] + 1) :
        /\ c # cell
        /\ 0 <= c[1] /\ c[1] < h /\ 0 <= c[2] /\ c[2] < w }

\* Mutant: a known mine is taken out like a safe cell, the count kept.
RECURSIVE SimplifyNew_mines_as_safe(_, _, _)
SimplifyNew_mines_as_safe(s, todo, a) ==
    IF todo = {} THEN s
    ELSE LET c  == CHOOSE x \in todo : TRUE
             s1 == IF c \in a.safes THEN Sentence_mark_safe(s, c) ELSE s
             s2 == IF c \in a.mines THEN Sentence_mark_safe(s1, c) ELSE s1
         IN  SimplifyNew_mines_as_safe(s2, todo \ {c}, a)

\* The new sentence simplified against what is already known: for every cell
\* of a copy of its cells, mark_safe if the cell is in safes, then mark_mine
\* if it is in mines.
RECURSIVE SimplifyNew(_, _, _)
SimplifyNew(s, todo, a) ==
    IF todo = {} THEN s
    ELSE LET c  == CHOOSE x \in todo : TRUE
             s1 == IF c \in a.safes THEN Sentence_mark_safe(s, c) ELSE s
             s2 == IF c \in a.mines THEN Sentence_mark_mine(s1, c) ELSE s1
         IN  SimplifyNew(s2, todo \ {c}, a)

\* add_knowledge up to the loop: record the move, mark the cell safe, build
\* the sentence of the neighbours, simplify it, append it.
AppendNewSentence(a, h, w, cell, count) ==
    LET a1  == mark_safe([a EXCEPT !.moves_made = @ \cup {cell}], cell)
        sur == surrounding_cells(h, w, cell)
        new == SimplifyNew(Sentence(sur, count), sur, a1)
    IN  [a1 EXCEPT !.knowledge = Append(@, new)]

\* What the sentences of the list say outright.
NewSafe(kb) == UNION { known_safes(kb[k]) : k \in DOMAIN kb }
NewMine(kb) == UNION { known_mines(kb[k]) : k \in DOMAIN kb }

\* Mutant: nothing is dropped.
DropEmpty_keeps_all(kb) == kb

\* The knowledge list without its empty sentences (sentence != 0).
DropEmpty(kb) == SelectSeq(kb, LAMBDA s : ~ SentenceEqInt(s, 0))

\* Mutant: marking a cell does not clear `consistent`.
MarkPass_keeps_flag(a) ==
    LET new_safe == NewSafe(a.knowledge)
        new_mine == NewMine(a.knowledge)
        a1 == MarkSafeEach(a, new_safe)
        a2 == MarkMineEach(a1, new_mine)
    IN  [agent |-> [a2 EXCEPT !.knowledge = DropEmpty(@)],
         consistent |-> TRUE]

\* First half of a pass of the loop: gather, mark, drop the empty sentences.
\* Gives the agent and the value of `consistent` before the scan.
MarkPass(a) ==
    LET new_safe == NewSafe(a.knowledge)
        new_mine == NewMine(a.knowledge)
        a1 == MarkSafeEach(a, new_safe)
        a2 == MarkMineEach(a1, new_mine)
    IN  [agent |-> [a2 EXCEPT !.knowledge = DropEmpty(@)],
         consistent |-> (new_safe = {} /\ new_mine = {})]

\* new_sentence in self.knowledge
InKnowledge(kb, s) == \E k \in DOMAIN kb : SentenceEq(kb[k], s)

\* Mutant: a sentence is not skipped when it meets itself.
ScanPair_no_self_skip(kb, x, y) ==
    IF ~ (kb[x].cells \subseteq kb[y].cells) THEN kb
    ELSE LET new_sentence == SentenceSub(kb[y], kb[x])
         IN  IF InKnowledge(kb, new_sentence) THEN kb
             ELSE Append(kb, new_sentence)

\* The body of the inner loop of the scan for sentence = kb[x] and
\* sentence1 = kb[y]: the list afterwards.
ScanPair(kb, x, y) ==
    IF SentenceEq(kb[x], kb[y]) THEN kb
    ELSE IF ~ (kb[x].cells \subseteq kb[y].cells) THEN kb
    ELSE LET new_sentence == SentenceSub(kb[y], kb[x])
         IN  IF InKnowledge(kb, new_sentence) THEN kb
             ELSE Append(kb, new_sentence)

\* The two nested loops over the list, which grows while they run: both
\* iterators go on to the sentences appended meanwhile.
RECURSIVE Scan(_, _, _, _)
Scan(kb, x, y, cons) ==
    IF x > Len(kb) THEN [knowledge |-> kb, consistent |-> cons]
    ELSE IF y > Len(kb) THEN Scan(kb, x + 1, 1, cons)
    ELSE LET kb1 == ScanPair(kb, x, y)
         IN  Scan(kb1, x, y + 1, cons /\ Len(kb1) = Len(kb))

\* while consistent == False: ...
RECURSIVE Saturate(_, _)
Saturate(a, cons) ==
    IF cons THEN a
    ELSE LET m == MarkPass(a)
             s == Scan(m.agent.knowledge, 1, 1, m.consistent)
         IN  Saturate([m.agent EXCEPT !.knowledge = s.knowledge], s.consistent)

add_knowledge(a, h, w, cell, count) ==
    Saturate(AppendNewSentence(a, h, w, cell, count), FALSE)

\* Mutant: the moves made are not taken out.
make_safe_move_any_safe(a) ==
    IF a.safes # {} THEN a.safes ELSE {None}

\* The values make_safe_move may return.
make_safe_move(a) ==
    LET safe_moves == a.safes \ a.moves_made
    IN  IF safe_moves # {} THEN safe_moves ELSE {None}

\* Mutant: the known mines are not taken out.
make_random_move_ignores_mines(a, h, w) ==
    LET possible_cells == Cells(h, w) \ a.moves_made
    IN  IF possible_cells = {} THEN {None} ELSE possible_cells

\* The values make_random_move may return.
make_random_move(a, h, w) ==
    LET invalid_cells  == a.mines \cup a.moves_made
        possible_cells == Cells(h, w) \ invalid_cells
    IN  IF possible_cells = {} THEN {None} ELSE possible_cells

\* ------------------------------------------------------------------ state

Self == Agent(moves_made, mines, safes, knowledge)

Call(op, cell, count, value, entry) ==
    [op |-> op, cell |-> cell, count |-> count, value |-> value, entry |-> entry]

GameCall(op, cell, value) == [op |-> op, cell |-> cell, value |-> value]

\* No Minesweeper object is under study.
NoGame ==
    /\ game = Game(0, 0) /\ game_pc = "absent" /\ game_mines = 0
    /\ game_out = GameCall("none", None, None)

SentenceCall(op, cell, before) == [op |-> op, cell |-> cell, before |-> before]

\* No Sentence object is under study.
NoSentence ==
    /\ sentence = Sentence({}, 0)
    /\ sentence_out = SentenceCall("none", None, Sentence({}, 0))

\* No tweet is under study.
NoTweet == data = [tweet |-> <<>>]

SetAgent(a) ==
    /\ moves_made' = a.moves_made
    /\ mines' = a.mines
    /\ safes' = a.safes
    /\ knowledge' = a.knowledge

\* A fresh agent on a board of some shape, next to a board with some mines.
Init ==
    /\ height \in 1 .. MaxCells
    /\ width \in 1 .. MaxCells
    /\ height * width <= MaxCells
    /\ board \in { b \in SUBSET Cells(height, width) : Cardinality(b) <= MaxMines }
    /\ moves_made = {} /\ mines = {} /\ safes = {} /\ knowledge = <<>>
    /\ pc = "idle" /\ consistent = TRUE /\ i = 0 /\ j = 0
    /\ calls = 0
    /\ last = Call("init", None, 0, None, <<>>)
    /\ NoGame /\ NoSentence /\ NoTweet

\* The board driver reveals a cell that holds no mine and reports the number
\* of mines around it.
AddKnowledge ==
    /\ pc = "idle"
    /\ Len(knowledge) < MaxKnowledge
    /\ \E cell \in Cells(height, width) \ board :
         LET count == nearby_mines(height, width, board, cell)
             entry == AppendNewSentence(Self, height, width, cell, count)
         IN  /\ SetAgent(add_knowledge(Self, height, width, cell, count))
             /\ last' = Call("add_knowledge", cell, count, None, entry.knowledge)
    /\ UNCHANGED <<outside, dims, board, loop, calls>>

MakeSafeMove ==
    /\ pc = "idle"
    /\ \E v \in make_safe_move(Self) :
         last' = Call("make_safe_move", None, 0, v, <<>>)
    /\ UNCHANGED <<outside, dims, board, agent, loop, calls>>

MakeRandomMove ==
    /\ pc = "idle"
    /\ \E v \in make_random_move(Self, height, width) :
         last' = Call("make_random_move", None, 0, v, <<>>)
    /\ UNCHANGED <<outside, dims, board, agent, loop, calls>>

Next == AddKnowledge \/ MakeSafeMove \/ MakeRandomMove

Spec == Init /\ [][Next]_vars

\* ------------------------------------------------ add_knowledge, stepwise
\* The same call, one loop iteration per step: pc is "idle" outside the call,
\* "while" at the test of the while loop, "scan" inside the two nested for
\* loops, and "MemoryError" once the list has outgrown MaxList (list.append
\* has nothing left to allocate; the model follows the call no further).

\* Lines 238-292: everything before the loop.
Enter(cell, count) ==
    /\ LET entry == AppendNewSentence(Self, height, width, cell, count)
       IN  /\ SetAgent(entry)
           /\ last' = Call("add_knowledge", cell, count, None, entry.knowledge)
    /\ pc' = "while" /\ consistent' = FALSE /\ i' = 0 /\ j' = 0

\* The well-behaved board driver calls add_knowledge.
CallAddKnowledge ==
    /\ pc = "idle"
    /\ Len(knowledge) < MaxKnowledge
    /\ \E cell \in Cells(height, width) \ board :
         Enter(cell, nearby_mines(height, width, board, cell))
    /\ UNCHANGED <<outside, dims, board, calls>>

\* One pass of the while loop up to the scan.
WhilePass ==
    /\ pc = "while" /\ consistent = FALSE
    /\ LET m == MarkPass(Self)
       IN  /\ SetAgent(m.agent)
           /\ consistent' = m.consistent
    /\ pc' = "scan" /\ i' = 1 /\ j' = 1
    /\ UNCHANGED <<outside, dims, board, calls, last>>

\* One step of the nested for loops: the outer iterator is exhausted, the
\* inner iterator is exhausted, or one pair is looked at.
ScanStep ==
    /\ pc = "scan"
    /\ IF i > Len(knowledge)
       THEN /\ pc' = "while" /\ i' = 0 /\ j' = 0
            /\ UNCHANGED <<knowledge, consistent>>
       ELSE IF j > Len(knowledge)
       THEN /\ i' = i + 1 /\ j' = 1
            /\ UNCHANGED <<knowledge, consistent, pc>>
       ELSE LET kb1 == ScanPair(knowledge, i, j)
            IN  IF Len(kb1) > MaxList
                THEN /\ pc' = "MemoryError"
                     /\ UNCHANGED <<knowledge, consistent, i, j>>
                ELSE /\ knowledge' = kb1
                     /\ consistent' = (consistent /\ Len(kb1) = Len(knowledge))
                     /\ j' = j + 1
                     /\ UNCHANGED <<pc, i>>
    /\ UNCHANGED <<outside, dims, board, moves_made, mines, safes, calls, last>>

\* The while test finds consistent true: the call returns.
Return ==
    /\ pc = "while" /\ consistent = TRUE
    /\ pc' = "idle"
    /\ UNCHANGED <<outside, dims, board, agent, consistent, i, j, calls, last>>

Running == WhilePass \/ ScanStep \/ Return

\* The interpreter keeps executing a call it has entered.
Progress == WF_vars(WhilePass) /\ WF_vars(ScanStep) /\ WF_vars(Return)

NextRun == CallAddKnowledge \/ Running

SpecRun == Init /\ [][NextRun]_vars /\ Progress

\* -------------------------------------------------------- any driver at all
\* A driver that checks nothing: any cell of the grid and two cells outside it
\* (one above the first row, one past the last row and column), any count,
\* and the agent's mark_mine and mark_safe called from outside.

AnyCells == Cells(height, width) \cup {<<-1, 0>>, <<height, width>>}

InitAny ==
    /\ height \in 1 .. MaxCellsAny
    /\ width \in 1 .. MaxCellsAny
    /\ height * width <= MaxCellsAny
    /\ board = {}
    /\ moves_made = {} /\ mines = {} /\ safes = {} /\ knowledge = <<>>
    /\ pc = "idle" /\ consistent = TRUE /\ i = 0 /\ j = 0
    /\ calls = 0
    /\ last = Call("init", None, 0, None, <<>>)
    /\ NoGame /\ NoSentence /\ NoTweet

CallAddKnowledgeAny ==
    /\ pc = "idle"
    /\ calls < MaxCalls
    /\ \E cell \in AnyCells, count \in 0 .. MaxCount : Enter(cell, count)
    /\ calls' = calls + 1
    /\ UNCHANGED <<outside, dims, board>>

MarkMine ==
    /\ pc = "idle"
    /\ calls < MaxCalls
    /\ \E cell \in AnyCells :
         /\ SetAgent(mark_mine(Self, cell))
         /\ last' = Call("mark_mine", cell, 0, None, <<>>)
    /\ calls' = calls + 1
    /\ UNCHANGED <<outside, dims, board, loop>>

MarkSafe ==
    /\ pc = "idle"
    /\ calls < MaxCalls
    /\ \E cell \in AnyCells :
         /\ SetAgent(mark_safe(Self, cell))
         /\ last' = Call("mark_safe", cell, 0, None, <<>>)
    /\ calls' = calls + 1
    /\ UNCHANGED <<outside, dims, board, loop>>

NextAny ==
    \/ CallAddKnowledgeAny \/ MarkMine \/ MarkSafe
    \/ MakeSafeMove \/ MakeRandomMove
    \/ Running

SpecAny == InitAny /\ [][NextAny]_vars /\ Progress

\* The same driver with add_knowledge as its only call.
NextCalls == CallAddKnowledgeAny \/ Running

SpecCalls == InitAny /\ [][NextCalls]_vars /\ Progress

\* ------------------------------------------------------ the board object
\* Minesweeper.__init__ one iteration of its placement loop per step, then
\* the object's methods, and a caller that flags cells in mines_found.

\* No agent is under study.
NoAgent ==
    /\ height = 0 /\ width = 0 /\ board = {}
    /\ moves_made = {} /\ mines = {} /\ safes = {} /\ knowledge = <<>>
    /\ pc = "idle" /\ consistent = TRUE /\ i = 0 /\ j = 0
    /\ calls = 0
    /\ last = Call("none", None, 0, None, <<>>)

\* Lines 13-23 done: an empty field of some shape, some number of mines asked.
InitBoard ==
    /\ \E h, w \in 0 .. MaxBoardCells :
         h * w <= MaxBoardCells /\ game = Game(h, w)
    /\ game_mines \in 0 .. MaxBoardCells + 1
    /\ game_pc = "place"
    /\ game_out = GameCall("init", None, None)
    /\ NoAgent /\ NoSentence /\ NoTweet

\* One iteration of the placement loop: random.randrange(0) raises
\* ValueError; otherwise some cell is drawn.
Place ==
    /\ game_pc = "place"
    /\ placing(game, game_mines)
    /\ IF game.height <= 0 \/ game.width <= 0
       THEN /\ game_pc' = "ValueError"
            /\ UNCHANGED <<game, game_out>>
       ELSE /\ \E cell \in Cells(game.height, game.width) :
                 /\ game' = place(game, cell)
                 /\ game_out' = GameCall("draw", cell, ~ game.board[cell])
            /\ UNCHANGED game_pc
    /\ UNCHANGED <<game_mines, player, sentences, data>>

\* The loop's test fails: line 34, and __init__ returns.
Constructed ==
    /\ game_pc = "place"
    /\ ~ placing(game, game_mines)
    /\ game' = [mines_found |-> {}] @@ game
    /\ game_pc' = "done"
    /\ game_out' = GameCall("__init__", None, None)
    /\ UNCHANGED <<game_mines, player, sentences, data>>

\* The caller flags a cell: it adds it to mines_found.
Flag ==
    /\ game_pc = "done"
    /\ \E cell \in Cells(game.height, game.width) :
         /\ game' = [game EXCEPT !.mines_found = @ \cup {cell}]
         /\ game_out' = GameCall("flag", cell, None)
    /\ UNCHANGED <<game_pc, game_mines, player, sentences, data>>

IsMine ==
    /\ game_pc = "done"
    /\ \E cell \in Cells(game.height, game.width) :
         game_out' = GameCall("is_mine", cell, is_mine(game, cell))
    /\ UNCHANGED <<game, game_pc, game_mines, player, sentences, data>>

NearbyMines ==
    /\ game_pc = "done"
    /\ \E cell \in Cells(game.height, game.width) :
         game_out' = GameCall("nearby_mines", cell,
                        nearby_mines(game.height, game.width, Mined(game), cell))
    /\ UNCHANGED <<game, game_pc, game_mines, player, sentences, data>>

Won ==
    /\ game_pc = "done"
    /\ game_out' = GameCall("won", None, won(game))
    /\ UNCHANGED <<game, game_pc, game_mines, player, sentences, data>>

PrintBoard ==
    /\ game_pc = "done"
    /\ game_out' = GameCall("print", None, print(game))
    /\ UNCHANGED <<game, game_pc, game_mines, player, sentences, data>>

NextBoard ==
    \/ Place \/ Constructed
    \/ Flag \/ IsMine \/ NearbyMines \/ Won \/ PrintBoard

SpecBoard == InitBoard /\ [][NextBoard]_vars

\* ----------------------------------------------------- a Sentence on its own
\* Any sentence over the cells of one row, any count (also counts no set of
\* mines gives), marked with any cell of the row.

SentenceCells == Cells(1, MaxSentenceCells)

InitSentence ==
    /\ sentence \in { Sentence(cells, count) :
                         cells \in SUBSET SentenceCells,
                         count \in -1 .. MaxSentenceCells + 1 }
    /\ sentence_out = SentenceCall("init", None, sentence)
    /\ NoAgent /\ NoGame /\ NoTweet

SentenceMarkMine ==
    /\ \E cell \in SentenceCells :
         /\ sentence' = Sentence_mark_mine(sentence, cell)
         /\ sentence_out' = SentenceCall("mark_mine", cell, sentence)
    /\ UNCHANGED <<player, minesweeper, data>>

SentenceMarkSafe ==
    /\ \E cell \in SentenceCells :
         /\ sentence' = Sentence_mark_safe(sentence, cell)
         /\ sentence_out' = SentenceCall("mark_safe", cell, sentence)
    /\ UNCHANGED <<player, minesweeper, data>>

NextSentence == SentenceMarkMine \/ SentenceMarkSafe

SpecSentence == InitSentence /\ [][NextSentence]_vars

\* ------------------------------------------------- the tweet cleaner's step 1
\* src/Twitter AI/twitter.py.  A text is a sequence of characters; the texts
\* looked at are those over four characters, one of each kind the pattern
\* "@[\w+]" tells apart: "@", a word character, "+", and one that is neither.

Alphabet == {"@", "a", "+", " "}

\* The class [\w+] of the pattern of line 29, within Alphabet.
HandleClass == {"a", "+"}

Texts == UNION { [1 .. n -> Alphabet] : n \in 0 .. MaxTweetLen }

\* re.findall("@[class]", txt): the matches from position p on, left to
\* right, non-overlapping, each as the text matched.
RECURSIVE findall(_, _, _)
findall(class, txt, p) ==
    IF p > Len(txt) THEN <<>>
    ELSE IF txt[p] = "@" /\ p < Len(txt) /\ txt[p + 1] \in class
         THEN <<SubSeq(txt, p, p + 1)>> \o findall(class, txt, p + 2)
         ELSE findall(class, txt, p + 1)

\* txt from position p on without the occurrences of the two characters lit.
RECURSIVE sub_literal(_, _, _)
sub_literal(lit, txt, p) ==
    IF p > Len(txt) THEN <<>>
    ELSE IF p < Len(txt) /\ txt[p] = lit[1] /\ txt[p + 1] = lit[2]
         THEN sub_literal(lit, txt, p + 2)
         ELSE <<txt[p]>> \o sub_literal(lit, txt, p + 1)

\* re.sub(pat, '', txt) for a matched text pat = "@c" used as the pattern:
\* "@+" reads as one or more "@", any other "@c" as itself.
re_sub(pat, txt) ==
    IF pat[2] = "+"
    THEN SelectSeq(txt, LAMBDA c : c # "@")
    ELSE sub_literal(pat, txt, 1)

\* for i in r: input_txt = re.sub(i, '', input_txt), from the k-th match on.
RECURSIVE sub_each(_, _, _)
sub_each(r, k, input_txt) ==
    IF k > Len(r) THEN input_txt
    ELSE sub_each(r, k + 1, re_sub(r[k], input_txt))

\* remove_pattern(input_txt, "@[class]")
remove_pattern(input_txt, class) ==
    sub_each(findall(class, input_txt, 1), 1, input_txt)

\* A row with some tweet, before line 29.
InitTweet ==
    /\ data \in { [tweet |-> t] : t \in Texts }
    /\ NoAgent /\ NoGame /\ NoSentence

\* Line 29 on that row.
TidyTweet ==
    /\ "tidy_tweet" \notin DOMAIN data
    /\ data' = [tidy_tweet |-> remove_pattern(data.tweet, HandleClass)] @@ data
    /\ UNCHANGED <<player, minesweeper, sentences>>

NextTweet == TidyTweet

SpecTweet == InitTweet /\ [][NextTweet]_vars

\* ------------------------------------------------------------------ claims

\* C1: under the board driver (cells without a mine, true neighbour counts)
\* every cell the agent holds as a mine holds a mine on the board and no cell
\* it holds as safe does.
C1_Soundness == mines \subseteq board /\ safes \cap board = {}

\* The agent has inferred a mine and a safe cell it was never told about.
C1_Witness ==
    /\ last.op = "add_knowledge"
    /\ mines # {}
    /\ safes \ moves_made # {}

\* C2: under the board driver safes and mines never share a cell.
C2_Disjoint == safes \cap mines = {}

\* Both sets are inhabited after a call.
C2_Witness ==
    /\ last.op = "add_knowledge"
    /\ mines # {}
    /\ Cardinality(safes) >= 2

\* C3: after a call of add_knowledge no two entries of the knowledge list have
\* the same cells and the same count.
C3_NoDuplicates ==
    \A x, y \in DOMAIN knowledge :
        x # y => ~ SentenceEq(knowledge[x], knowledge[y])

\* C4: under the board driver every call of add_knowledge that is entered
\* returns: the loop reaches a pass that changes nothing.
C4_Terminates == [](pc # "idle" => <>(pc = "idle"))

\* A call that needed marking and more than one sentence has returned.
C4_Witness ==
    /\ pc = "idle"
    /\ last.op = "add_knowledge"
    /\ mines # {}
    /\ Len(knowledge) >= 2

\* C5: add_knowledge, given any cell and any count, raises nothing and returns
\* (its scan stops appending, so the list never outgrows the machine).
C5_RaisesNothing == pc # "MemoryError"

\* Why the list outgrows every bound.  The scan is at sentence = knowledge[i]
\* with no cells and a count d # 0, and some sentence at or after the inner
\* iterator, other than sentence, has the extreme count of all sentences with
\* its cells (the least when d > 0, the greatest when d < 0).  Looking at that
\* sentence appends one with the same cells and a count beyond the extreme,
\* which is then the extreme one and still ahead of the inner iterator.
Runaway ==
    /\ pc = "scan"
    /\ i \in DOMAIN knowledge
    /\ knowledge[i].cells = {}
    /\ knowledge[i].count # 0
    /\ \E k \in j .. Len(knowledge) :
         /\ ~ SentenceEq(knowledge[k], knowledge[i])
         /\ \A m \in DOMAIN knowledge :
              knowledge[m].cells = knowledge[k].cells =>
                 IF knowledge[i].count > 0
                 THEN knowledge[m].count >= knowledge[k].count
                 ELSE knowledge[m].count <= knowledge[k].count

\* Once in Runaway the call stays in it for as long as the list fits.
RunawayIsClosed == [][Runaway => (Runaway' \/ pc' = "MemoryError")]_vars

\* The only way to the end of the list's room is through Runaway.
RunawayIsTheCause == [][pc' = "MemoryError" => Runaway]_vars

\* The in-bounds cells next to c (a king's move away), by coordinates.
Adjacent(c) ==
    { d \in Cells(height, width) :
        /\ d # c
        /\ d[1] - c[1] \in -1 .. 1
        /\ d[2] - c[2] \in -1 .. 1 }

\* s as it reads once the cells in safes and mines are taken out of it.
Resolved(s) ==
    Sentence(s.cells \ (safes \cup mines),
             s.count - Cardinality(s.cells \cap mines))

\* The pairs of sentences of the list at loop entry, the second's cells a
\* proper subset of the first's.
SubsetPairs ==
    { p \in (DOMAIN last.entry) \X (DOMAIN last.entry) :
        /\ last.entry[p[2]].cells \subseteq last.entry[p[1]].cells
        /\ last.entry[p[2]].cells # last.entry[p[1]].cells }

Difference(p) ==
    Sentence(last.entry[p[1]].cells \ last.entry[p[2]].cells,
             last.entry[p[1]].count - last.entry[p[2]].count)

\* S1 - S2 has been derived and acted on, for every such pair: what is left
\* of it is in the list unless nothing is left, its cells are all in safes
\* when the counts are equal, and all in mines when the counts differ by the
\* number of its cells.
DifferencesActedOn ==
    \A p \in SubsetPairs :
        LET d == Difference(p)
        IN  /\ Resolved(d).cells = {} \/ InKnowledge(knowledge, Resolved(d))
            /\ d.count = 0 => d.cells \subseteq safes
            /\ d.count = Cardinality(d.cells) => d.cells \subseteq mines

\* Some placement of mines makes every sentence of the list at loop entry
\* true (as every list built from a board's true counts is).
EntryConsistent ==
    \E M \in SUBSET (UNION { last.entry[k].cells : k \in DOMAIN last.entry }) :
        \A k \in DOMAIN last.entry :
            Cardinality(last.entry[k].cells \cap M) = last.entry[k].count

\* C6 as claimed: whenever the list holds S1 and S2, S2's cells a proper
\* subset of S1's, then by the time add_knowledge returns S1 - S2 has been
\* derived and acted on.
C6_AsClaimed ==
    (pc = "idle" /\ last.op = "add_knowledge") => DifferencesActedOn

\* C6 amended: ... whenever the list, all of its sentences true of one
\* placement of mines, holds S1 and S2, ...
C6_SubsetInference ==
    (pc = "idle" /\ last.op = "add_knowledge" /\ EntryConsistent) =>
        DifferencesActedOn

\* A call has returned whose list held {A,B,..}=n and a proper part of it =n:
\* the cells of the difference were not known before and are safe now.
C6_Witness ==
    /\ pc = "idle" /\ last.op = "add_knowledge"
    /\ EntryConsistent
    /\ \E p \in SubsetPairs :
         /\ Difference(p).count = 0
         /\ last.entry[p[2]].count > 0
         /\ Difference(p).cells \subseteq safes \ moves_made

\* The state right after add_knowledge(cell, 0) on a fresh agent.
AfterZeroOnFresh ==
    /\ pc = "idle"
    /\ last.op = "add_knowledge" /\ last.count = 0
    /\ moves_made = {last.cell}
    /\ Len(last.entry) = 1

\* C7 as claimed: after add_knowledge(cell, 0) on a fresh agent every
\* neighbour of cell is in safes, and a make_safe_move that follows returns
\* one of those neighbours, never cell.
C7_ZeroCellAsClaimed ==
    [][ /\ AfterZeroOnFresh' => Adjacent(last'.cell) \subseteq safes'
        /\ (AfterZeroOnFresh /\ last'.op = "make_safe_move") =>
               (last'.value \in Adjacent(last.cell) /\ last'.value # last.cell)
      ]_vars

\* C7 amended: ... a make_safe_move that follows returns one of those
\* neighbours when cell has any, and None when it has none (a 1 x 1 board);
\* never cell.
C7_ZeroCell ==
    [][ /\ AfterZeroOnFresh' => Adjacent(last'.cell) \subseteq safes'
        /\ (AfterZeroOnFresh /\ last'.op = "make_safe_move") =>
               /\ last'.value # last.cell
               /\ IF Adjacent(last.cell) # {}
                  THEN last'.value \in Adjacent(last.cell)
                  ELSE last'.value = None
      ]_vars

\* make_safe_move has answered with a neighbour of the zero cell just revealed.
C7_Witness ==
    /\ last.op = "make_safe_move"
    /\ Cardinality(moves_made) = 1
    /\ \E c \in moves_made :
         /\ Cardinality(Adjacent(c)) >= 3
         /\ safes = Adjacent(c) \cup {c}
         /\ last.value \in Adjacent(c)

\* C8: make_safe_move returns a cell of safes that is not in moves_made,
\* returns None exactly when there is none, and changes nothing of the agent.
C8_SafeMove ==
    [][ last'.op = "make_safe_move" =>
          /\ last'.value = None <=> safes \ moves_made = {}
          /\ last'.value # None => last'.value \in safes \ moves_made
          /\ UNCHANGED <<moves_made, safes, mines, knowledge>>
      ]_vars

\* make_safe_move has picked a cell while other safe cells were moved on.
C8_Witness ==
    /\ last.op = "make_safe_move"
    /\ last.value # None
    /\ safes \cap moves_made # {}
    /\ mines # {}

\* C9: make_random_move returns an in-bounds cell that is neither in
\* moves_made nor in mines, returns None exactly when every in-bounds cell is
\* in one of them, and changes nothing of the agent.
C9_RandomMove ==
    [][ last'.op = "make_random_move" =>
          /\ last'.value = None <=>
                 Cells(height, width) \subseteq moves_made \cup mines
          /\ last'.value # None =>
                 /\ 0 <= last'.value[1] /\ last'.value[1] < height
                 /\ 0 <= last'.value[2] /\ last'.value[2] < width
                 /\ last'.value \notin moves_made
                 /\ last'.value \notin mines
          /\ UNCHANGED <<moves_made, safes, mines, knowledge>>
      ]_vars

\* make_random_move has picked a cell while others were moved on or mines.
C9_Witness ==
    /\ last.op = "make_random_move"
    /\ last.value # None
    /\ mines \cap Cells(height, width) # {}
    /\ moves_made \cap Cells(height, width) # {}

\* C10: whatever the agent is asked to do, a cell once in safes stays in safes
\* and a cell once in mines stays in mines.
C10_OnlyGrow == [][safes \subseteq safes' /\ mines \subseteq mines']_vars

\* Both sets hold cells and a further operation has run.
C10_Witness ==
    /\ calls >= 2
    /\ safes # {} /\ mines # {}
    /\ last.op \in {"add_knowledge", "mark_mine", "mark_safe"}

\* C11: when a call of add_knowledge has returned, whatever the driver gave
\* it, no sentence of the knowledge list has an empty set of cells.
C11_NoEmptySentence ==
    (pc = "idle" /\ last.op = "add_knowledge") =>
        \A k \in DOMAIN knowledge : knowledge[k].cells # {}

\* A call has returned that emptied a sentence it was entered with and still
\* holds one.
C11_Witness ==
    /\ pc = "idle" /\ last.op = "add_knowledge"
    /\ knowledge # <<>>
    /\ \E k \in DOMAIN last.entry :
         /\ last.entry[k].cells # {}
         /\ last.entry[k].cells \subseteq safes \cup mines

\* The number of mines asked for fits the grid.
MinesFit == 0 <= game_mines /\ game_mines <= game.height * game.width

\* What __init__ leaves: as many mines as asked, all in bounds, and the grid
\* True exactly on them.
WellBuilt ==
    /\ Cardinality(game.mines) = game_mines
    /\ \A c \in game.mines :
         /\ 0 <= c[1] /\ c[1] < game.height
         /\ 0 <= c[2] /\ c[2] < game.width
    /\ \A r \in 0 .. game.height - 1, c \in 0 .. game.width - 1 :
         game.board[<<r, c>>] <=> <<r, c>> \in game.mines

\* C12: construction with 0 <= mines <= height * width raises nothing and
\* ends with exactly `mines` distinct in-bounds cells in the mine set, the
\* grid True exactly on them and mines_found empty; afterwards no operation
\* (is_mine, nearby_mines, won, print, the caller's flagging) changes the mine
\* set or the grid.
C12_Construction ==
    [][ MinesFit =>
          /\ game_pc' \in {"place", "done"}
          /\ game_pc' = "done" => WellBuilt'
          /\ (game_pc = "place" /\ game_pc' = "done") => game'.mines_found = {}
          /\ game_pc = "done" =>
                (game'.mines = game.mines /\ game'.board = game.board)
      ]_vars

\* A board with two mines and a cell without one was built and has been
\* flagged on and asked about since.
C12_Witness ==
    /\ game_pc = "done"
    /\ game_mines >= 2
    /\ game.height * game.width > game_mines
    /\ game.mines_found # {}
    /\ game_out.op \in {"is_mine", "nearby_mines", "won", "print"}

\* More mines are asked for than the grid has cells.
TooManyMines == game_mines > game.height * game.width

\* Construction is still in its loop, whose test holds and whose body can run.
StillPlacing ==
    /\ game_pc = "place"
    /\ Cardinality(game.mines) # game_mines
    /\ ENABLED Place

\* C13 as claimed: when the mine count exceeds height * width, construction
\* never ends and reports no error: it is for ever in its placement loop.
C13_NeverEndsAsClaimed == TooManyMines => StillPlacing

\* C13 amended: ... on a grid with at least one row and one column ...
C13_NeverEnds ==
    (TooManyMines /\ game.height >= 1 /\ game.width >= 1) => StillPlacing

\* Every cell holds a mine, more are asked for, and a draw was just discarded.
C13_Witness ==
    /\ TooManyMines
    /\ game.height * game.width >= 2
    /\ game.mines = Cells(game.height, game.width)
    /\ game_out.op = "draw" /\ game_out.value = FALSE

MinesAround(cell) ==
    Cardinality({ d \in game.mines :
                    /\ d # cell
                    /\ d[1] - cell[1] \in -1 .. 1
                    /\ d[2] - cell[2] \in -1 .. 1 })

\* C15: nearby_mines(cell), cell in bounds, is the number of mines at row and
\* column distance at most 1 from cell, cell itself not counted.
C15_NearbyMines ==
    game_out.op = "nearby_mines" => game_out.value = MinesAround(game_out.cell)

\* nearby_mines has counted the mines around a cell of the first row that
\* holds a mine itself, on a board with a mine further away.
C15_Witness ==
    /\ game_out.op = "nearby_mines"
    /\ game_out.cell[1] = 0
    /\ game_out.cell \in game.mines
    /\ game_out.value >= 1
    /\ Cardinality(game.mines) > game_out.value + 1

\* The sentence before the last call, without the call's cell.
BeforeWithoutCell == { c \in sentence_out.before.cells : c # sentence_out.cell }

\* C16: on any sentence, mark_mine(cell) with cell present removes it and takes
\* 1 off count, mark_safe(cell) with cell present removes it and leaves count,
\* and either with cell absent leaves cells and count as they were.
C16_SentenceMarking ==
    /\ sentence_out.op \in {"mark_mine", "mark_safe"} =>
          /\ sentence.cells = BeforeWithoutCell
          /\ DOMAIN sentence = {"cells", "count"}
    /\ sentence_out.op = "mark_mine" =>
          sentence.count = IF sentence_out.cell \in sentence_out.before.cells
                           THEN sentence_out.before.count - 1
                           ELSE sentence_out.before.count
    /\ sentence_out.op = "mark_safe" =>
          sentence.count = sentence_out.before.count

\* mark_safe has taken the last cell but one out of a sentence whose count was
\* then the number of cells it still had.
C16_Witness ==
    /\ sentence_out.op = "mark_safe"
    /\ sentence_out.cell \in sentence_out.before.cells
    /\ Cardinality(sentence.cells) = 1
    /\ sentence.count = 1

\* txt from position p on with the matches of "@" followed by one character
\* of the class deleted, left to right, and every other character kept.
RECURSIVE Stripped(_, _)
Stripped(txt, p) ==
    IF p > Len(txt) THEN <<>>
    ELSE IF txt[p] = "@" /\ p < Len(txt) /\ txt[p + 1] \in HandleClass
         THEN Stripped(txt, p + 2)
         ELSE <<txt[p]>> \o Stripped(txt, p + 1)

\* C17: remove_pattern(text, "@[\w+]") is text with exactly the matches of "@"
\* followed by one word character or "+" deleted and every other character
\* kept in place.
C17_HandleStripping ==
    "tidy_tweet" \in DOMAIN data => data.tidy_tweet = Stripped(data.tweet, 1)

\* Where the code keeps to C17: on texts in which no match ends in "+" and
\* deleting the matches brings no "@" next to a character of the class.
C17_OnPlainTexts ==
    ( /\ "tidy_tweet" \in DOMAIN data
      /\ \A p \in 1 .. Len(data.tweet) - 1 :
            ~ (data.tweet[p] = "@" /\ data.tweet[p + 1] = "+")
      /\ findall(HandleClass, Stripped(data.tweet, 1), 1) = <<>> )
    => data.tidy_tweet = Stripped(data.tweet, 1)

\* One more pass of the loop on the agent as it is: the marking and the purge,
\* then the scan.
OneMorePass ==
    LET m == MarkPass(Self)
    IN  [m.agent EXCEPT
           !.knowledge = Scan(m.agent.knowledge, 1, 1, m.consistent).knowledge]

\* C18: when add_knowledge has returned, one more pass would mark no cell,
\* drop no sentence and append none; no sentence has count 0 or as many mines
\* as cells; and for any two unequal sentences A, B of the list with A's cells
\* among B's, B - A is in the list.
C18_FixedPoint ==
    (pc = "idle" /\ last.op = "add_knowledge") =>
        /\ OneMorePass = Self
        /\ \A k \in DOMAIN knowledge :
              /\ knowledge[k].count # 0
              /\ knowledge[k].count # Cardinality(knowledge[k].cells)
        /\ \A x, y \in DOMAIN knowledge :
              ( /\ knowledge[x] # knowledge[y]
                /\ knowledge[x].cells \subseteq knowledge[y].cells )
              => \E z \in DOMAIN knowledge :
                    /\ knowledge[z].cells =
                           knowledge[y].cells \ knowledge[x].cells
                    /\ knowledge[z].count =
                           knowledge[y].count - knowledge[x].count

\* A call has returned with a sentence, its proper part and their difference
\* in the list, the difference derived by the scan of this call.
C18_Witness ==
    /\ pc = "idle" /\ last.op = "add_knowledge"
    /\ \E x, y, z \in DOMAIN knowledge :
         /\ knowledge[x].cells # {}
         /\ knowledge[x].cells \subseteq knowledge[y].cells
         /\ knowledge[x].cells # knowledge[y].cells
         /\ knowledge[z] = Sentence(knowledge[y].cells \ knowledge[x].cells,
                                    knowledge[y].count - knowledge[x].count)
         /\ \A k \in DOMAIN last.entry : last.entry[k] # knowledge[z]

C20_KnownCellsGone ==
    (pc = "idle" /\ last.op = "add_knowledge") =>
        /\ \A k \in DOMAIN knowledge :
              knowledge[k].cells \cap (safes \cup mines \cup moves_made) = {}
        /\ moves_made \subseteq safes

\* A call has returned that marked as a mine a cell the list mentioned as the
\* loop was entered, and the list still holds a sentence.
C20_Witness ==
    /\ pc = "idle" /\ last.op = "add_knowledge"
    /\ knowledge # <<>>
    /\ \E k \in DOMAIN last.entry : last.entry[k].cells \cap mines # {}

====
